---- MODULE Spec2Model ----
(***************************************************************************)
(* Model of the IPEDS merit-aid analysis pipeline                          *)
(* (IPEDS_Merit_Aid_Analysis.py) and of the Access-to-CSV exporter         *)
(* (CSV_Conversion.py).                                                    *)
(*                                                                         *)
(* Numbers.  pandas holds the survey columns as IEEE doubles.  A number is *)
(* modelled as a fraction [n, d] in lowest terms with d >= 0:              *)
(*   d > 0          a finite value n/d                                     *)
(*   d = 0, n # 0   +inf / -inf (the sign of n)                            *)
(*   d = 0, n = 0   NaN                                                    *)
(* Arithmetic and comparison follow IEEE-754 for inf and NaN; finite       *)
(* arithmetic is exact (the rounding of doubles is not modelled, and there *)
(* is no negative zero).                                                   *)
(***************************************************************************)
EXTENDS Integers, Sequences, FiniteSets, TLC

VARIABLES
    disk,          \* the CSV files under IPEDS_BASE_PATH: key -> table, and which exist
    pc,            \* position inside run_phase_3_pipeline
    data,          \* load_and_clean_data: the dict of loaded tables
    hd_filtered,   \* load_and_clean_data: the filtered directory
    merged_data,   \* calculate_metrics' result
    final_report,  \* generate_insights' result
    output_file,   \* final_merit_college_rankings.csv: <<>> when absent, <<rows>> when written
    console,       \* what was printed, as a set of message tags
    charts,        \* number of rows handed to the two figures (0: none shown)
    xpc,           \* position inside accdb_to_csv_multiple_tables
    catalog,       \* the tables of the .accdb file (user and system tables)
    tables_to_export,
    exported_count,
    attempts,      \* the tables whose export was tried, in order
    csv_files,     \* the CSV files written to OUTPUT_DIR
    conn,          \* "none" | "open" | "closed"
    xlog           \* what the exporter printed about errors and completion

pvars == <<disk, pc, data, hd_filtered, merged_data, final_report, output_file, console, charts>>
xvars == <<xpc, catalog, tables_to_export, exported_count, attempts, csv_files, conn, xlog>>
vars == <<pvars, xvars>>

-----------------------------------------------------------------------------
(* IEEE-like numbers *)

Abs(x) == IF x < 0 THEN -x ELSE x

Sign(x) == IF x < 0 THEN -1 ELSE IF x > 0 THEN 1 ELSE 0

RECURSIVE GCD(_, _)
GCD(a, b) == IF b = 0 THEN a ELSE GCD(b, a % b)

Norm(n, d) ==
    IF d = 0 THEN [n |-> Sign(n), d |-> 0]
    ELSE LET g == GCD(Abs(n), d) IN [n |-> n \div g, d |-> d \div g]

Num(x) == [n |-> x, d |-> 1]

NaN == [n |-> 0, d |-> 0]

IsNaN(x) == x.d = 0 /\ x.n = 0

IsInf(x) == x.d = 0 /\ x.n # 0

FNeg(a) == [n |-> 0 - a.n, d |-> a.d]

FAdd(a, b) ==
    IF IsNaN(a) \/ IsNaN(b) THEN NaN
    ELSE IF IsInf(a) THEN (IF IsInf(b) /\ b.n # a.n THEN NaN ELSE a)
    ELSE IF IsInf(b) THEN b
    ELSE Norm(a.n * b.d + b.n * a.d, a.d * b.d)

FSub(a, b) == FAdd(a, FNeg(b))

FMul(a, b) ==
    IF IsNaN(a) \/ IsNaN(b) THEN NaN
    ELSE IF IsInf(a) \/ IsInf(b)
         THEN (IF a.n = 0 \/ b.n = 0 THEN NaN ELSE [n |-> Sign(a.n) * Sign(b.n), d |-> 0])
    ELSE Norm(a.n * b.n, a.d * b.d)

\* x / 0 is +-inf, 0 / 0 and inf / inf are NaN, x / inf is 0
FDiv(a, b) ==
    LET s == IF b.n < 0 THEN -1 ELSE 1
    IN  Norm(a.n * b.d * s, a.d * Abs(b.n))

\* comparisons with NaN are False
FLe(a, b) ==
    /\ ~IsNaN(a)
    /\ ~IsNaN(b)
    /\ IF a.d = 0 /\ b.d = 0 THEN a.n <= b.n ELSE a.n * b.d <= b.n * a.d

FGe(a, b) == FLe(b, a)

FLt(a, b) == FLe(a, b) /\ ~FLe(b, a)

FGt(a, b) == FLt(b, a)

-----------------------------------------------------------------------------
(* Program constants *)

NetPriceCeiling == 25000

MinColleges == 10

TopN == 20

VisRows == 10

Percent == 100

MedianQ == [n |-> 1, d |-> 2]

NetPriceQ == [n |-> 3, d |-> 10]

MgiQ == [n |-> 8, d |-> 10]

SpecialValues == {Num(-1), Num(-2), Num(-9)}

NumericSurveyTables == {"sfa_p1", "sfa_p2", "ic", "adm_sat", "adm_rate", "gr"}

\* ESSENTIAL_FILES, in the order the dict is iterated
FileKeys == <<"hd", "sfa_p1", "sfa_p2", "ic", "adm_sat", "adm_rate", "gr", "mission">>

KeySet == {FileKeys[i] : i \in 1..Len(FileKeys)}

\* the columns the program reads from each file
Columns ==
    [hd       |-> {"UNITID", "INSTNM", "CONTROL", "ICLEVEL", "HDEGOFR1"},
     sfa_p1   |-> {"UNITID", "IGRNT_A"},
     sfa_p2   |-> {"UNITID", "NPT442"},
     ic       |-> {"UNITID", "TUITION2"},
     adm_sat  |-> {"UNITID", "SATVR75", "SATMT75"},
     adm_rate |-> {"UNITID", "DVADM01"},
     gr       |-> {"UNITID", "GBA4RTT"},
     mission  |-> {"unitid", "mission"}]

-----------------------------------------------------------------------------
(* Bounds and inputs.                                                      *)
(* An input is a directory of CSV files describing a list of institutions. *)
(* Institution i has UNITID i and is of one of the kinds below (raw values *)
(* as they stand in the files, special values included).  Kinds A and B    *)
(* are the two institutions of the end-to-end scenario and may occur up to *)
(* MaxBulk times together; at most MaxRare of the other kinds occur, once each.  UNITIDs  *)
(* are unique within a table (a duplicated UNITID would fan out the joins; *)
(* that is outside the inputs explored).                                   *)

MaxBulk == 21

MaxRare == 1

Kinds ==
    [A |-> [ICLEVEL |-> 1, HDEGOFR1 |-> 5, TUITION2 |-> 20000, IGRNT_A |-> 8000,
            NPT442 |-> 18000, GBA4RTT |-> 60, DVADM01 |-> -1, inP2 |-> TRUE],
     B |-> [ICLEVEL |-> 1, HDEGOFR1 |-> 5, TUITION2 |-> 50000, IGRNT_A |-> 30000,
            NPT442 |-> 15000, GBA4RTT |-> 90, DVADM01 |-> 40, inP2 |-> TRUE],
     \* sticker price zero
     Z |-> [ICLEVEL |-> 1, HDEGOFR1 |-> 4, TUITION2 |-> 0, IGRNT_A |-> 8000,
            NPT442 |-> 18000, GBA4RTT |-> 60, DVADM01 |-> 50, inP2 |-> TRUE],
     \* sticker price not reported
     S |-> [ICLEVEL |-> 1, HDEGOFR1 |-> 3, TUITION2 |-> -1, IGRNT_A |-> 8000,
            NPT442 |-> 18000, GBA4RTT |-> 60, DVADM01 |-> 50, inP2 |-> TRUE],
     \* generous and good, but above the net price ceiling
     H |-> [ICLEVEL |-> 1, HDEGOFR1 |-> 5, TUITION2 |-> 40000, IGRNT_A |-> 36000,
            NPT442 |-> 30000, GBA4RTT |-> 90, DVADM01 |-> 20, inP2 |-> TRUE],
     \* graduation rate not reported; same ratios as A
     E |-> [ICLEVEL |-> 1, HDEGOFR1 |-> 5, TUITION2 |-> 10000, IGRNT_A |-> 4000,
            NPT442 |-> 9000, GBA4RTT |-> -2, DVADM01 |-> -9, inP2 |-> TRUE],
     \* a 2-year college, highest degree offered "not applicable"
     X |-> [ICLEVEL |-> 2, HDEGOFR1 |-> -2, TUITION2 |-> 50000, IGRNT_A |-> 30000,
            NPT442 |-> 15000, GBA4RTT |-> 90, DVADM01 |-> 40, inP2 |-> TRUE],
     \* net price zero
     F |-> [ICLEVEL |-> 1, HDEGOFR1 |-> 5, TUITION2 |-> 50000, IGRNT_A |-> 30000,
            NPT442 |-> 0, GBA4RTT |-> 90, DVADM01 |-> 40, inP2 |-> TRUE],
     \* no row in SFA2122_P2.csv
     M |-> [ICLEVEL |-> 1, HDEGOFR1 |-> 5, TUITION2 |-> 50000, IGRNT_A |-> 30000,
            NPT442 |-> 15000, GBA4RTT |-> 90, DVADM01 |-> 40, inP2 |-> FALSE]]

Rep(k, c) == [i \in 1..c |-> k]

Opt(k, R) == IF k \in R THEN <<k>> ELSE <<>>

RareKinds == <<"H", "E", "S", "X", "M", "F", "Z">>

PoolOf(a, b, R) ==
    Opt("Z", R) \o Opt("X", R) \o Rep("A", a) \o Opt("H", R) \o Opt("S", R)
        \o Rep("B", b) \o Opt("E", R) \o Opt("M", R) \o Opt("F", R)

\* the files a complete directory holds for the institutions of pool
FullTables(pool) ==
    LET n == Len(pool)
        K(i) == Kinds[pool[i]]
        ids == [i \in 1..n |-> i]
    IN  [hd       |-> [i \in 1..n |-> [UNITID |-> Num(i), INSTNM |-> pool[i], CONTROL |-> Num(1),
                                       ICLEVEL |-> Num(K(i).ICLEVEL),
                                       HDEGOFR1 |-> Num(K(i).HDEGOFR1)]],
         sfa_p1   |-> [i \in 1..n |-> [UNITID |-> Num(i), IGRNT_A |-> Num(K(i).IGRNT_A)]],
         sfa_p2   |-> LET in2 == SelectSeq(ids, LAMBDA i : K(i).inP2)
                      IN  [j \in 1..Len(in2) |->
                              [UNITID |-> Num(in2[j]), NPT442 |-> Num(K(in2[j]).NPT442)]],
         ic       |-> [i \in 1..n |-> [UNITID |-> Num(i), TUITION2 |-> Num(K(i).TUITION2)]],
         adm_sat  |-> [i \in 1..n |-> [UNITID |-> Num(i), SATVR75 |-> Num(700),
                                       SATMT75 |-> Num(-2)]],
         adm_rate |-> [i \in 1..n |-> [UNITID |-> Num(i), DVADM01 |-> Num(K(i).DVADM01)]],
         gr       |-> [i \in 1..n |-> [UNITID |-> Num(i), GBA4RTT |-> Num(K(i).GBA4RTT)]],
         mission  |-> [i \in 1..n |-> [unitid |-> Num(i), mission |-> "statement"]]]

\* a table without column c
DropColumn(rows, c) ==
    [i \in 1..Len(rows) |-> [f \in (DOMAIN rows[i]) \ {c} |-> rows[i][f]]]

\* a directory: which files exist, and each file's columns and rows
Directory(pool, missingFiles, badKey, badCol) ==
    LET full == FullTables(pool)
    IN  [present |-> KeySet \ missingFiles,
         tables  |-> [k \in KeySet |->
                        IF k = badKey
                        THEN [cols |-> Columns[k] \ {badCol}, rows |-> DropColumn(full[k], badCol)]
                        ELSE [cols |-> Columns[k], rows |-> full[k]]]]

\* the institutions of the directories that lack a file or a column
SmallPool == <<"A", "B">>

-----------------------------------------------------------------------------
(* 2. ETL stage: extraction and initial filtering *)

ESSENTIAL_FILES ==
    [hd |-> "HD2022.csv", sfa_p1 |-> "SFA2122_P1.csv", sfa_p2 |-> "SFA2122_P2.csv",
     ic |-> "IC2022_AY.csv", adm_sat |-> "ADM2022.csv", adm_rate |-> "DRVADM2022.csv",
     gr |-> "DRVGR2022.csv", mission |-> "IC2022Mission.csv"]

NoTable == [cols |-> {}, rows |-> <<>>]

NoData == [k \in KeySet |-> NoTable]

\* the columns that hold text: a text cell never equals a number
TextColumns == {"INSTNM", "mission"}

\* DataFrame.replace([-1, -2, -9], np.nan): every cell of the table
Replace(t) ==
    [cols |-> t.cols,
     rows |-> [i \in 1..Len(t.rows) |->
                 [f \in DOMAIN t.rows[i] |->
                     IF f \notin TextColumns /\ t.rows[i][f] \in SpecialValues
                     THEN NaN ELSE t.rows[i][f]]]]

\* the replacement applied to all eight tables
CleanAllTables(d) == [k \in KeySet |-> Replace(d[k])]

\* 2.2: the six numeric survey tables, in place
CleanSpecialValues(d) ==
    [k \in KeySet |-> IF k \in NumericSurveyTables THEN Replace(d[k]) ELSE d[k]]

\* 2.3: hd[(ICLEVEL == 1) & (HDEGOFR1 >= 3) & UNITID.notna()][[UNITID, INSTNM, CONTROL]]
FilterDirectory(hd) ==
    LET keep == SelectSeq(hd.rows, LAMBDA r :
                    /\ r.ICLEVEL = Num(1)
                    /\ FGe(r.HDEGOFR1, Num(3))
                    /\ ~IsNaN(r.UNITID))
    IN  [i \in 1..Len(keep) |->
            [UNITID |-> keep[i].UNITID, INSTNM |-> keep[i].INSTNM, CONTROL |-> keep[i].CONTROL]]

\* the result: none (with what was printed), or the eight tables
load_and_clean_data(dsk) ==
    LET missing == SelectSeq(FileKeys, LAMBDA k : k \notin dsk.present)
        cleaned == CleanSpecialValues(dsk.tables)
    IN  IF missing # <<>>
        THEN [none |-> TRUE, data |-> NoData, hd |-> <<>>,
              printed |-> <<"Error: Required file not found", ESSENTIAL_FILES[Head(missing)]>>]
        ELSE IF ~(Columns.hd \subseteq cleaned.hd.cols)
        THEN [none |-> TRUE, data |-> cleaned, hd |-> <<>>,
              printed |-> <<"CRITICAL FILTER ERROR", ESSENTIAL_FILES.hd>>]
        ELSE [none |-> FALSE, data |-> cleaned, hd |-> FilterDirectory(cleaned.hd),
              printed |-> <<"Successfully used HDEGOFR1 to filter", ESSENTIAL_FILES.hd>>]

-----------------------------------------------------------------------------
(* 3. ETL stage: transformation and metric calculation *)

\* the cell of column col in the row of rows whose key column holds id; NaN without one
\* (a left join on a key that is unique on the right)
Lookup(rows, key, id, col) ==
    LET m == SelectSeq(rows, LAMBDA r : r[key] = id)
    IN  IF m = <<>> THEN NaN ELSE Head(m)[col]

HasRow(rows, key, id) == SelectSeq(rows, LAMBDA r : r[key] = id) # <<>>

\* the k-th smallest (k from 1) of a sequence of numbers without NaN
Kth(v, k) ==
    LET vals == {v[i] : i \in 1..Len(v)}
    IN  CHOOSE x \in vals :
            /\ Cardinality({i \in 1..Len(v) : FLt(v[i], x)}) < k
            /\ k <= Cardinality({i \in 1..Len(v) : FLe(v[i], x)})

\* Series.median(): NaN skipped; the mean of the two middle values
Median(values) ==
    LET v == SelectSeq(values, LAMBDA x : ~IsNaN(x))
        n == Len(v)
    IN  IF n = 0 THEN NaN
        ELSE IF n % 2 = 1 THEN Kth(v, (n + 1) \div 2)
        ELSE FDiv(FAdd(Kth(v, n \div 2), Kth(v, n \div 2 + 1)), Num(2))

\* numpy's _lerp: a + (b - a) * t, and b - (b - a) * (1 - t) where t >= 0.5
Lerp(a, b, t) ==
    LET diff == FSub(b, a)
    IN  IF FGe(t, MedianQ) THEN FSub(b, FMul(diff, FSub(Num(1), t)))
        ELSE FAdd(a, FMul(diff, t))

\* Series.quantile(q): NaN skipped, linear interpolation at index (n - 1) * q
Quantile(values, q) ==
    LET v == SelectSeq(values, LAMBDA x : ~IsNaN(x))
        n == Len(v)
        idx == (n - 1) * q.n
        lo == idx \div q.d
        hi == IF lo + 1 > n - 1 THEN n - 1 ELSE lo + 1
    IN  IF n = 0 THEN NaN
        ELSE Lerp(Kth(v, lo + 1), Kth(v, hi + 1), Norm(idx % q.d, q.d))

Column(rows, col) == [i \in 1..Len(rows) |-> rows[i][col]]

\* 3.1: sfa_p1[[UNITID, IGRNT_A]].merge(sfa_p2[[UNITID, NPT442]], on=UNITID, how=inner)
SfaMerged(sfa_p1, sfa_p2) ==
    LET both == SelectSeq(sfa_p1, LAMBDA r : HasRow(sfa_p2, "UNITID", r.UNITID))
    IN  [i \in 1..Len(both) |->
            [UNITID |-> both[i].UNITID, IGRNT_A |-> both[i].IGRNT_A,
             NPT442 |-> Lookup(sfa_p2, "UNITID", both[i].UNITID, "NPT442")]]

\* 3.2: adm_sat[[UNITID, SATVR75, SATMT75]].merge(adm_rate[[UNITID, DVADM01]], how=left)
AdmMerged(adm_sat, adm_rate) ==
    [i \in 1..Len(adm_sat) |->
        [UNITID |-> adm_sat[i].UNITID, SATVR75 |-> adm_sat[i].SATVR75,
         SATMT75 |-> adm_sat[i].SATMT75,
         DVADM01 |-> Lookup(adm_rate, "UNITID", adm_sat[i].UNITID, "DVADM01")]]

\* 3.4: HD -> IC -> SFA -> ADM -> GR -> MISSION, left joins on UNITID
MergeAll(hd, d) ==
    LET sfa == SfaMerged(d.sfa_p1.rows, d.sfa_p2.rows)
        adm == AdmMerged(d.adm_sat.rows, d.adm_rate.rows)
    IN  [i \in 1..Len(hd) |->
            LET id == hd[i].UNITID
            IN  [UNITID   |-> id,
                 INSTNM   |-> hd[i].INSTNM,
                 CONTROL  |-> hd[i].CONTROL,
                 TUITION2 |-> Lookup(d.ic.rows, "UNITID", id, "TUITION2"),
                 IGRNT_A  |-> Lookup(sfa, "UNITID", id, "IGRNT_A"),
                 NPT442   |-> Lookup(sfa, "UNITID", id, "NPT442"),
                 SATVR75  |-> Lookup(adm, "UNITID", id, "SATVR75"),
                 SATMT75  |-> Lookup(adm, "UNITID", id, "SATMT75"),
                 DVADM01  |-> Lookup(adm, "UNITID", id, "DVADM01"),
                 GBA4RTT  |-> Lookup(d.gr.rows, "UNITID", id, "GBA4RTT"),
                 mission  |-> Lookup(d.mission.rows, "unitid", id, "mission")]]

\* merged_df.dropna(subset=[TUITION2, IGRNT_A, NPT442])
DropNa(rows) ==
    SelectSeq(rows, LAMBDA r : ~IsNaN(r.TUITION2) /\ ~IsNaN(r.IGRNT_A) /\ ~IsNaN(r.NPT442))

\* 3.5, 3.6 and the renaming: the derived columns of the rows that are left.
\* (GBA4RTT.fillna(median, inplace=True) is taken to fill the column of merged_df,
\* as pandas before copy-on-write does.)
DeriveMetrics(rows) ==
    LET med == Median(Column(rows, "GBA4RTT"))
    IN  [i \in 1..Len(rows) |->
            LET r == rows[i]
            IN  [UNITID              |-> r.UNITID,
                 INSTNM              |-> r.INSTNM,
                 CONTROL             |-> r.CONTROL,
                 Sticker_Price       |-> r.TUITION2,
                 Avg_Inst_Grant      |-> r.IGRNT_A,
                 Net_Price_MidClass  |-> r.NPT442,
                 MGI                 |-> FDiv(r.IGRNT_A, r.TUITION2),
                 Graduation_Rate_4yr |-> FDiv(IF IsNaN(r.GBA4RTT) THEN med ELSE r.GBA4RTT,
                                              Num(Percent)),
                 NET_PRICE_RATIO     |-> FDiv(r.NPT442, r.TUITION2),
                 Admissions_Rate     |-> FDiv(r.DVADM01, Num(Percent)),
                 SATVR75             |-> r.SATVR75,
                 SATMT75             |-> r.SATMT75,
                 MISSION             |-> r.mission]]

\* the result: raised (an uncaught KeyError), or a table, empty after a caught KeyError
calculate_metrics(hd, d) ==
    IF ~(Columns.sfa_p1 \subseteq d.sfa_p1.cols) \/ ~(Columns.sfa_p2 \subseteq d.sfa_p2.cols)
    THEN [raised |-> TRUE, df |-> <<>>, printed |-> <<>>]
    ELSE IF ~(Columns.adm_sat \subseteq d.adm_sat.cols)
            \/ ~(Columns.adm_rate \subseteq d.adm_rate.cols)
    THEN [raised |-> FALSE, df |-> <<>>,
          printed |-> << <<"CRITICAL ADMISSIONS ERROR", "KeyError">> >>]
    ELSE IF ~(Columns.ic \subseteq d.ic.cols)
    THEN [raised |-> TRUE, df |-> <<>>, printed |-> <<>>]
    ELSE IF ~(Columns.gr \subseteq d.gr.cols)
    THEN [raised |-> FALSE, df |-> <<>>,
          printed |-> << <<"CRITICAL GRADUATION RATE ERROR", "KeyError">> >>]
    ELSE IF ~(Columns.mission \subseteq d.mission.cols)
    THEN [raised |-> FALSE, df |-> <<>>,
          printed |-> << <<"CRITICAL MISSION ERROR", "KeyError">> >>]
    ELSE [raised |-> FALSE, df |-> DeriveMetrics(DropNa(MergeAll(hd, d))), printed |-> <<>>]

-----------------------------------------------------------------------------
(* 4. Insights stage: ranking and final filtering *)

\* Filter 1 and Filter 2: net price <= 25000, MGI >= the median MGI of df
Tier1(df) ==
    LET affordable == SelectSeq(df, LAMBDA r : FLe(r.Net_Price_MidClass, Num(NetPriceCeiling)))
        mgi_threshold == Quantile(Column(df, "MGI"), MedianQ)
    IN  SelectSeq(affordable, LAMBDA r : FGe(r.MGI, mgi_threshold))

\* the relaxed filter: net price <= its 30th percentile, MGI >= its 80th percentile, over df
Relaxed(df) ==
    LET np_threshold == Quantile(Column(df, "Net_Price_MidClass"), NetPriceQ)
        mgi_threshold == Quantile(Column(df, "MGI"), MgiQ)
    IN  SelectSeq(df, LAMBDA r :
            FLe(r.Net_Price_MidClass, np_threshold) /\ FGe(r.MGI, mgi_threshold))

\* the test of the survivor count as len(final_df) <= 10
TooFewOrTen(n) == n <= MinColleges

\* if len(final_df) < 10
TooFew(n) == n < MinColleges

Selected(df) ==
    LET tier1 == Tier1(df)
    IN  IF TooFew(Len(tier1)) THEN Relaxed(df) ELSE tier1

\* 4.2: (MGI + Graduation_Rate_4yr) / NET_PRICE_RATIO
CompositeScore(r) == FDiv(FAdd(r.MGI, r.Graduation_Rate_4yr), r.NET_PRICE_RATIO)

\* the columns of the client report
ReportRow(r) ==
    [UNITID              |-> r.UNITID,
     INSTNM              |-> r.INSTNM,
     CONTROL             |-> r.CONTROL,
     Sticker_Price       |-> r.Sticker_Price,
     Avg_Inst_Grant      |-> r.Avg_Inst_Grant,
     Net_Price_MidClass  |-> r.Net_Price_MidClass,
     MGI                 |-> r.MGI,
     Graduation_Rate_4yr |-> r.Graduation_Rate_4yr,
     Admissions_Rate     |-> r.Admissions_Rate,
     SATVR75             |-> r.SATVR75,
     SATMT75             |-> r.SATMT75,
     Composite_Score     |-> CompositeScore(r),
     MISSION             |-> r.MISSION]

\* sort_values is called without kind, that is with kind='quicksort', which pandas
\* documents as not stable: the order among rows of equal score is unspecified.
\* Two of the orders it may leave them in are explored.
TieOrders == {"input", "reversed"}

\* the order of sort_values with ascending=True
BeforeAscending(x, y, tie) ==
    IF tie = "input" THEN FLe(x.Composite_Score, y.Composite_Score)
    ELSE FLt(x.Composite_Score, y.Composite_Score)

\* x goes before y in descending order; among equal scores as tie says
Before(x, y, tie) ==
    IF tie = "input" THEN FGe(x.Composite_Score, y.Composite_Score)
    ELSE FGt(x.Composite_Score, y.Composite_Score)

\* the rows of s inserted one by one into acc, which is in descending order
RECURSIVE InsertAll(_, _, _)
InsertAll(acc, s, tie) ==
    IF s = <<>> THEN acc
    ELSE LET x == Head(s)
             k == Cardinality({j \in 1..Len(acc) : Before(acc[j], x, tie)})
         IN  InsertAll(SubSeq(acc, 1, k) \o <<x>> \o SubSeq(acc, k + 1, Len(acc)),
                       Tail(s), tie)

\* sort_values(by=Composite_Score, ascending=False): descending, NaN last in input order
SortValues(rows, tie) ==
    InsertAll(<<>>, SelectSeq(rows, LAMBDA r : ~IsNaN(r.Composite_Score)), tie)
        \o SelectSeq(rows, LAMBDA r : IsNaN(r.Composite_Score))

\* DataFrame.head(k)
HeadRows(rows, k) == SubSeq(rows, 1, IF Len(rows) < k THEN Len(rows) ELSE k)

generate_insights(df, tie) ==
    LET final_df == Selected(df)
        scored == [i \in 1..Len(final_df) |-> ReportRow(final_df[i])]
    IN  HeadRows(SortValues(scored, tie), TopN)

-----------------------------------------------------------------------------
(* CSV_Conversion.py: the tables of an Access database, one CSV file each. *)
(* A table name is a sequence of characters.  A database is: whether the   *)
(* .accdb file exists, whether the ODBC driver connects to it, and its     *)
(* catalog, a list of entries [name, type, readable]; readable tells       *)
(* whether reading the table and writing its CSV file succeeds.            *)

MaxTables == 3

MSysPrefix == <<"M", "S", "y", "s">>

TemporaryName == <<"T", "e", "m", "p", "o", "r", "a", "r", "y">>

CatalogNames ==
    {<<"H", "D">>, <<"A", "D", "M">>, <<"M", "S", "y">>,
     <<"M", "S", "y", "s", "O", "b", "j">>, TemporaryName}

CatalogEntries ==
    [name : CatalogNames, type : {"TABLE"}, readable : BOOLEAN]
    \cup [name : {<<"Q", "r", "y">>}, type : {"VIEW"}, readable : BOOLEAN]

NoDatabase == [exists |-> FALSE, connectable |-> FALSE, tables |-> <<>>]

\* table_name.startswith('MSys')
StartsWith(name, prefix) ==
    Len(name) >= Len(prefix) /\ SubSeq(name, 1, Len(prefix)) = prefix

\* the names of the entries of type TABLE that are neither system nor temporary tables
get_table_names(db) ==
    LET listed == SelectSeq(db.tables, LAMBDA e : e.type = "TABLE")
        user == SelectSeq(listed, LAMBDA e :
                    ~StartsWith(e.name, MSysPrefix) /\ e.name # TemporaryName)
    IN  [i \in 1..Len(user) |-> user[i].name]

\* pd.read_sql(...) and df.to_csv(...) of table name raise nothing
ExportSucceeds(db, name) ==
    \E i \in 1..Len(db.tables) : db.tables[i].name = name /\ db.tables[i].readable

\* the loop left at the first table that fails
AbortOnError(failed, count, total) ==
    IF failed THEN "returned" ELSE IF count < total THEN "loop" ELSE "close"

\* where the loop goes after a table, exported or failed: the except clause of the
\* loop body catches the error, and the loop goes on
AfterTable(failed, count, total) == IF count < total THEN "loop" ELSE "close"

ExportInit ==
    /\ disk = Directory(<<>>, {}, "none", "none")
    /\ pc = "start"
    /\ data = NoData
    /\ hd_filtered = <<>>
    /\ merged_data = <<>>
    /\ final_report = <<>>
    /\ output_file = <<>>
    /\ console = <<>>
    /\ charts = 0
    /\ xpc = "idle"
    /\ \E ex \in BOOLEAN, co \in BOOLEAN, n \in 0..MaxTables :
         \E t \in [1..n -> CatalogEntries] :
            /\ \A i \in 1..n : \A j \in 1..n : t[i].name = t[j].name => i = j
            /\ ex \/ (~co /\ n = 0)
            /\ catalog = [exists |-> ex, connectable |-> co, tables |-> t]
    /\ tables_to_export = <<>>
    /\ exported_count = 0
    /\ attempts = <<>>
    /\ csv_files = {}
    /\ conn = "none"
    /\ xlog = <<>>

\* os.path.exists(accdb_path), else return; pyodbc.connect; get_table_names
Connect ==
    /\ xpc = "idle"
    /\ IF ~catalog.exists
       THEN /\ xlog' = Append(xlog, "Error: ACCDB file not found")
            /\ xpc' = "returned"
            /\ UNCHANGED <<conn, tables_to_export>>
       ELSE IF ~catalog.connectable
       THEN /\ xlog' = Append(xlog, "A critical ODBC error occurred")
            /\ xpc' = "returned"
            /\ UNCHANGED <<conn, tables_to_export>>
       ELSE /\ conn' = "open"
            /\ tables_to_export' = get_table_names(catalog)
            /\ xpc' = AfterTable(FALSE, 0, Len(get_table_names(catalog)))
            /\ xlog' = xlog
    /\ UNCHANGED <<catalog, exported_count, attempts, csv_files, pvars>>

\* one iteration of the loop over tables_to_export
ExportTable ==
    /\ xpc = "loop"
    /\ LET table_name == tables_to_export[exported_count + 1]
           ok == ExportSucceeds(catalog, table_name)
       IN  /\ exported_count' = exported_count + 1
           /\ attempts' = Append(attempts, table_name)
           /\ csv_files' = IF ok THEN csv_files \cup {table_name} ELSE csv_files
           /\ xlog' = IF ok THEN xlog ELSE Append(xlog, "Error exporting table")
           /\ xpc' = AfterTable(~ok, exported_count + 1, Len(tables_to_export))
    /\ UNCHANGED <<catalog, tables_to_export, conn, pvars>>

\* 5. conn.close()
CloseConnection ==
    /\ xpc = "close"
    /\ conn' = "closed"
    /\ xlog' = Append(xlog, "Conversion process complete")
    /\ xpc' = "returned"
    /\ UNCHANGED <<catalog, tables_to_export, exported_count, attempts, csv_files, pvars>>

ExportNext == Connect \/ ExportTable \/ CloseConnection

ExportSpec == ExportInit /\ [][ExportNext]_vars

-----------------------------------------------------------------------------
(* 6. Main execution: run_phase_3_pipeline, step by step *)

Init ==
    /\ \/ \E a \in 0..MaxBulk, b \in 0..MaxBulk, I \in SUBSET (1..Len(RareKinds)) :
            /\ a + b <= MaxBulk
            /\ Cardinality(I) <= MaxRare
            /\ disk = Directory(PoolOf(a, b, {RareKinds[i] : i \in I}), {}, "none", "none")
       \/ \E k \in KeySet : disk = Directory(SmallPool, {k}, "none", "none")
       \/ \E k \in KeySet : \E c \in Columns[k] : disk = Directory(SmallPool, {}, k, c)
    /\ pc = "start"
    /\ data = NoData
    /\ hd_filtered = <<>>
    /\ merged_data = <<>>
    /\ final_report = <<>>
    /\ output_file = <<>>
    /\ console = <<>>
    /\ charts = 0
    /\ xpc = "idle"
    /\ catalog = NoDatabase
    /\ tables_to_export = <<>>
    /\ exported_count = 0
    /\ attempts = <<>>
    /\ csv_files = {}
    /\ conn = "none"
    /\ xlog = <<>>

\* step 1: data_tuple = load_and_clean_data(...); if data_tuple is None: return
Extract ==
    /\ pc = "start"
    /\ LET r == load_and_clean_data(disk)
       IN  /\ data' = r.data
           /\ hd_filtered' = r.hd
           /\ console' = IF r.none THEN Append(console, r.printed)
                         ELSE console \o <<r.printed, <<"Data loaded successfully", "">> >>
           /\ pc' = IF r.none THEN "returned" ELSE "loaded"
    /\ UNCHANGED <<disk, merged_data, final_report, output_file, charts, xvars>>

\* the pipeline without the check of merged_data.empty
AfterTransformUnchecked(r) == IF r.raised THEN "crashed" ELSE "merged"

\* where the pipeline goes with calculate_metrics' result: if merged_data.empty: return
AfterTransform(r) ==
    IF r.raised THEN "crashed"
    ELSE IF r.df = <<>> THEN "returned"
    ELSE "merged"

\* step 2: merged_data = calculate_metrics(...); if merged_data.empty: return
Transform ==
    /\ pc = "loaded"
    /\ LET r == calculate_metrics(hd_filtered, data)
       IN  /\ merged_data' = r.df
           /\ console' = IF r.raised THEN Append(console, <<"Traceback", "KeyError">>)
                         ELSE IF AfterTransform(r) = "returned" THEN console \o r.printed
                         ELSE Append(console, <<"Metrics calculated", "">>)
           /\ pc' = AfterTransform(r)
    /\ UNCHANGED <<disk, data, hd_filtered, final_report, output_file, charts, xvars>>

\* step 3: final_report = generate_insights(merged_data)
Rank ==
    /\ pc = "merged"
    /\ \E tie \in TieOrders : final_report' = generate_insights(merged_data, tie)
    /\ console' = Append(console, <<"Final Report generated", "">>)
    /\ pc' = "ranked"
    /\ UNCHANGED <<disk, data, hd_filtered, merged_data, output_file, charts, xvars>>

\* step 4: final_report.to_csv(output_path, index=False)
Save ==
    /\ pc = "ranked"
    /\ output_file' = <<final_report>>
    /\ console' = Append(console, <<"Final ranked list saved", "final_merit_college_rankings.csv">>)
    /\ pc' = "saved"
    /\ UNCHANGED <<disk, data, hd_filtered, merged_data, final_report, charts, xvars>>

\* step 5: the two figures of the first ten rows, or the message that nothing qualified
Visualize ==
    /\ pc = "saved"
    /\ IF final_report # <<>>
       THEN /\ charts' = Len(HeadRows(final_report, VisRows))
            /\ console' = Append(console, <<"Final Output", "">>)
       ELSE /\ charts' = 0
            /\ console' = Append(console, <<"No colleges met the stringent criteria", "">>)
    /\ pc' = "returned"
    /\ UNCHANGED <<disk, data, hd_filtered, merged_data, final_report, output_file, xvars>>

Next == Extract \/ Transform \/ Rank \/ Save \/ Visualize

Spec == Init /\ [][Next]_vars

-----------------------------------------------------------------------------
(* Properties *)

Printed(tag) == \E i \in 1..Len(console) : console[i][1] = tag

\* generate_insights has returned
RankDone == Printed("Final Report generated")

MissingFile == disk.present # KeySet

MissingFilterColumn == ~(Columns.hd \subseteq disk.tables.hd.cols)

MissingMetricColumn ==
    \E k \in KeySet \ {"hd"} : ~(Columns[k] \subseteq disk.tables[k].cols)

Ids(rows) == {rows[i].UNITID : i \in 1..Len(rows)}

Min(a, b) == IF a < b THEN a ELSE b

\* the institutions of the merged pool that meet the strict criteria
StrictIds ==
    LET median == Quantile(Column(merged_data, "MGI"), MedianQ)
    IN  {merged_data[i].UNITID : i \in
            {j \in 1..Len(merged_data) :
                /\ FLe(merged_data[j].Net_Price_MidClass, Num(NetPriceCeiling))
                /\ FGe(merged_data[j].MGI, median)}}

\* the institutions of the merged pool that meet the relaxed criteria
RelaxedIds ==
    LET p30 == Quantile(Column(merged_data, "Net_Price_MidClass"), NetPriceQ)
        p80 == Quantile(Column(merged_data, "MGI"), MgiQ)
    IN  {merged_data[i].UNITID : i \in
            {j \in 1..Len(merged_data) :
                /\ FLe(merged_data[j].Net_Price_MidClass, p30)
                /\ FGe(merged_data[j].MGI, p80)}}

\* the institutions the filter in force lets through
EligibleIds == IF Cardinality(StrictIds) < MinColleges THEN RelaxedIds ELSE StrictIds

Scores == Column(final_report, "Composite_Score")

(* C1: when a file is missing, a filter column is missing from the        *)
(* directory table, or a column calculate_metrics requires is missing, no *)
(* later stage runs and the report file is never written.                 *)
C1_FatalStopsPipeline ==
    /\ (MissingFile \/ MissingFilterColumn) =>
          /\ pc \in {"start", "returned"}
          /\ hd_filtered = <<>>
          /\ ~Printed("Data loaded successfully")
    /\ (MissingFile \/ MissingFilterColumn \/ MissingMetricColumn) =>
          /\ pc \in {"start", "loaded", "returned", "crashed"}
          /\ merged_data = <<>>
          /\ final_report = <<>>
          /\ output_file = <<>>
          /\ charts = 0
          /\ ~Printed("Metrics calculated")
          /\ ~RankDone
          /\ ~Printed("Final ranked list saved")

C1_Witness ==
    /\ MissingMetricColumn
    /\ pc = "returned"
    /\ Printed("Data loaded successfully")
    /\ Printed("CRITICAL MISSION ERROR")

(* C2: when generate_insights returns a report with zero rows, the        *)
(* pipeline ends with a message to the user and writes no output file.    *)
C2_EmptyReportNotWritten ==
    (RankDone /\ final_report = <<>>) =>
        /\ output_file = <<>>
        /\ pc = "returned" => Printed("No colleges met the stringent criteria")

(* C3: no row whose sticker price is absent or zero is in the final       *)
(* report.                                                                *)
C3_NoZeroSticker ==
    RankDone => \A i \in 1..Len(final_report) :
                    /\ ~IsNaN(final_report[i].Sticker_Price)
                    /\ final_report[i].Sticker_Price # Num(0)

(* C4: calculate_metrics returns an empty result and does not raise       *)
(* whenever a column it requires is missing; the error is reported and    *)
(* the pipeline halts.                                                    *)
C4_MissingColumnReturnsEmpty ==
    (MissingMetricColumn /\ pc \notin {"start", "loaded"} /\ Printed("Data loaded successfully")) =>
        /\ pc = "returned"
        /\ merged_data = <<>>
        /\ \/ Printed("CRITICAL ADMISSIONS ERROR")
           \/ Printed("CRITICAL GRADUATION RATE ERROR")
           \/ Printed("CRITICAL MISSION ERROR")

(* C5: the relaxed selection replaces the strict one if and only if fewer *)
(* than 10 institutions pass the strict one: the report is the top of the *)
(* strict set when it has 10 or more members, of the relaxed set when it  *)
(* has 9 or fewer.                                                        *)
C5_FallbackIffFewerThanTen ==
    RankDone =>
        LET chosen == IF Cardinality(StrictIds) >= 10 THEN StrictIds ELSE RelaxedIds
        IN  /\ Ids(final_report) \subseteq chosen
            /\ Len(final_report) = Min(TopN, Cardinality(chosen))
            /\ Cardinality(Ids(final_report)) = Len(final_report)

C5_Witness ==
    /\ RankDone
    /\ Cardinality(StrictIds) = 9
    /\ RelaxedIds # StrictIds
    /\ final_report # <<>>

(* C6 as stated: the report has at most 20 rows, in descending order of   *)
(* Composite Score, and every row of the pool that is not in the report   *)
(* has a score no higher than the lowest score of the report.             *)
C6_TopOfPool ==
    RankDone =>
        /\ Len(final_report) <= 20
        /\ \A i \in 1..(Len(final_report) - 1) : FGe(Scores[i], Scores[i + 1])
        /\ \A j \in 1..Len(merged_data) :
              merged_data[j].UNITID \notin Ids(final_report) =>
                  \A i \in 1..Len(final_report) :
                      FLe(CompositeScore(merged_data[j]), Scores[i])

(* C6 amended: the report has at most 20 rows; the rows whose score is    *)
(* defined come first, in descending order, and the rows whose score is   *)
(* undefined (NaN) come last; every row that passed the filter in force   *)
(* and is not in the report has an undefined score or a score no higher   *)
(* than that of any row of the report.                                    *)
C6_TopOfEligible ==
    RankDone =>
        LET eligible == EligibleIds
            inReport == Ids(final_report)
            scores == Scores
            cut == SelectSeq(merged_data, LAMBDA r :
                       r.UNITID \in eligible /\ r.UNITID \notin inReport)
        IN  /\ Len(final_report) <= 20
            /\ \A i \in 1..(Len(final_report) - 1) :
                  \/ IsNaN(scores[i + 1])
                  \/ FGe(scores[i], scores[i + 1])
            /\ \A j \in 1..Len(cut) :
                  LET s == CompositeScore(cut[j])
                  IN  \/ IsNaN(s)
                      \/ \A i \in 1..Len(final_report) : FLe(s, scores[i])

\* a report cut to 20 rows, of unequal scores
C6_Witness ==
    /\ RankDone
    /\ Len(final_report) = 20
    /\ Cardinality(EligibleIds) > 20
    /\ FGt(Scores[1], Scores[20])

(* C7: two rows of the report with equal Composite Score are in the order *)
(* they have in the input pool.                                           *)
C7_StableSort ==
    RankDone =>
        \A i \in 1..Len(final_report) : \A j \in 1..Len(final_report) :
            (i < j /\ FLe(Scores[i], Scores[j]) /\ FLe(Scores[j], Scores[i])) =>
                FLt(final_report[i].UNITID, final_report[j].UNITID)

(* C8: after loading, every cell of the six numeric survey tables whose   *)
(* raw value was -1, -2 or -9 is absent, the directory and mission tables *)
(* are as read, and no special value enters the filter or the arithmetic. *)
C8_SpecialValuesAbsent ==
    (pc # "start" /\ ~MissingFile) =>
        /\ \A k \in NumericSurveyTables :
              /\ Len(data[k].rows) = Len(disk.tables[k].rows)
              /\ \A i \in 1..Len(data[k].rows) : \A f \in DOMAIN data[k].rows[i] :
                    LET raw == disk.tables[k].rows[i][f]
                    IN  data[k].rows[i][f] = IF raw \in {Num(-1), Num(-2), Num(-9)} THEN NaN ELSE raw
        /\ data.hd = disk.tables.hd
        /\ data.mission = disk.tables.mission
        /\ \A i \in 1..Len(merged_data) :
              /\ merged_data[i].Sticker_Price \notin SpecialValues
              /\ merged_data[i].Avg_Inst_Grant \notin SpecialValues
              /\ merged_data[i].Net_Price_MidClass \notin SpecialValues
              /\ FGe(merged_data[i].MGI, Num(0))
              /\ IsNaN(merged_data[i].Admissions_Rate) \/ FGe(merged_data[i].Admissions_Rate, Num(0))
              /\ IsNaN(merged_data[i].Graduation_Rate_4yr)
                    \/ FGe(merged_data[i].Graduation_Rate_4yr, Num(0))

\* a run that loaded special values and went on to merge the tables
C8_Witness ==
    /\ pc = "merged"
    /\ \E i \in 1..Len(disk.tables.ic.rows) : disk.tables.ic.rows[i].TUITION2 = Num(-1)
    /\ \E j \in 1..Len(disk.tables.adm_sat.rows) : disk.tables.adm_sat.rows[j].SATMT75 = Num(-2)
    /\ \E j \in 1..Len(merged_data) : IsNaN(merged_data[j].SATMT75)

(* C9: a table whose export fails is logged and skipped: every table      *)
(* returned by get_table_names is attempted exactly once, in order,       *)
(* whichever tables failed, and the connection is closed after the loop.  *)
C9_EveryTableAttempted ==
    /\ attempts = SubSeq(tables_to_export, 1, exported_count)
    /\ conn # "none" => tables_to_export = get_table_names(catalog)
    /\ (xpc = "returned" /\ conn # "none") =>
          /\ conn = "closed"
          /\ attempts = get_table_names(catalog)
          /\ \A i \in 1..Len(attempts) : \A j \in 1..Len(attempts) :
                attempts[i] = attempts[j] => i = j
          /\ csv_files = {attempts[i] : i \in {j \in 1..Len(attempts) :
                                                  ExportSucceeds(catalog, attempts[j])}}
          /\ Len(SelectSeq(xlog, LAMBDA m : m = "Error exporting table"))
                = Cardinality({i \in 1..Len(attempts) : ~ExportSucceeds(catalog, attempts[i])})

\* a run in which a table failed and a later one was exported
C9_Witness ==
    /\ xpc = "returned"
    /\ conn = "closed"
    /\ \E i \in 1..Len(attempts) : \E j \in 1..Len(attempts) :
          /\ i < j
          /\ ~ExportSucceeds(catalog, attempts[i])
          /\ attempts[j] \in csv_files

(* C10: for a pool of at least 10 rows of which fewer than 10 pass the    *)
(* strict filter, the relaxed filter yields a ranked set of at least 10   *)
(* rows.                                                                  *)
C10_AtLeastTen ==
    (RankDone /\ Len(merged_data) >= 10 /\ Cardinality(StrictIds) < 10) =>
        Len(final_report) >= 10

====
